---- MODULE Spec2Model ----
(***************************************************************************)
(* Model of dcal's rate-conversion pipeline:                                *)
(*   src/src/decoder/audio_manager.rs  (ResampledDecoder and its session)   *)
(*   src/examples/queue.rs             (the playback loop of main)          *)
(* Samples are positive integers that identify a position of a source's     *)
(* stream; 0 is silence.  A block is a record that carries the samples and  *)
(* the identity of the step that produced it.                               *)
(***************************************************************************)
EXTENDS Integers, Sequences, FiniteSets, TLC

VARIABLES queue, qi, initialized, dec, conv, sink, pc, result,
          faults, opened, built, flushes, ret

vars == <<queue, qi, initialized, dec, conv, sink, pc, result,
          faults, opened, built, flushes, ret>>

(* ---------------------------- bounds ----------------------------------- *)
\* longest queue of sources
MaxQueue == 2
\* largest channel count of the output configuration
MaxChannels == 2
\* frames of one resampler input block (rubato's input_frames_next)
NFrames == 2
\* samples the sink's buffer holds before the stream is started
SinkCap == 6
\* decode faults the sources raise over one run
MaxFaults == 1
\* latest call of Decoder::next at which a planned fault is raised
MaxFuse == 3
\* sink writes recorded in one run
MaxSink == 14

(* ---------------------------- inputs ----------------------------------- *)
Rates == {44100, 48000, 96000}

\* frames of the successive chunks a source decodes to
Shapes == {<<1>>, <<3>>, <<2, 1>>, <<1, 2, 2>>, <<2, 2>>}

Sources == [rate : Rates, shape : Shapes]

Queues == UNION {[1..n -> Sources] : n \in 1..MaxQueue}

\* DecoderError::ResetRequired and every other DecoderError
FaultKinds == {"reset", "other"}

Min(a, b) == IF a < b THEN a ELSE b

\* the element of a one-element set
The(S) == CHOOSE x \in S : TRUE

RECURSIVE SumTo(_, _)
SumTo(shape, n) == IF n = 0 THEN 0 ELSE shape[n] + SumTo(shape, n - 1)

(* ---------------------------- blocks ----------------------------------- *)
EmptyBlock == [k |-> "empty", id |-> 0, n |-> 0, data |-> <<>>]

(* ------------------------- decode source ------------------------------- *)
\* Decoder::new: the first chunk is decoded on construction.
DecoderNew(inst, file, src, channels, fuse, kind) ==
    [inst |-> inst, file |-> file, rate |-> src.rate, shape |-> src.shape,
     channels |-> channels, idx |-> 1, fuse |-> fuse, kind |-> kind]

\* samples of the i-th chunk of the decoder's stream, interleaved
ChunkData(d, i) ==
    LET first == SumTo(d.shape, i - 1) * d.channels
        len   == d.shape[i] * d.channels
    IN  [j \in 1..len |-> d.file * 100 + first + j]

\* Decoder::current
DecoderCurrent(d) ==
    [k |-> "raw", id |-> d.inst, n |-> d.idx, data |-> ChunkData(d, d.idx)]

\* Decoder::sample_rate
DecoderSampleRate(d) == d.rate

\* Decoder::next: res is "some", "none" (end of stream), "reset"
\* (DecoderError::ResetRequired) or "other" (any other DecoderError).
\* fuse counts the calls left before the source raises its fault.
DecoderNext(d) ==
    IF d.fuse = 1
    THEN [d |-> [d EXCEPT !.fuse = 0], res |-> d.kind]
    ELSE LET d1 == [d EXCEPT !.fuse = IF @ = 0 THEN 0 ELSE @ - 1]
         IN  IF d.idx < Len(d.shape)
             THEN [d |-> [d1 EXCEPT !.idx = @ + 1], res |-> "some"]
             ELSE [d |-> d1, res |-> "none"]

(* ------------------------- sample accumulator -------------------------- *)
\* ChannelBuffer::new(n_frames, channels)
ChannelBufferNew(nframes, channels) ==
    [channels |-> channels, nframes |-> nframes, pos |-> 0,
     ch |-> [c \in 1..channels |-> [f \in 1..nframes |-> 0]]]

Capacity(b) == b.nframes * b.channels

\* ChannelBuffer::is_full
IsFull(b) == b.pos = Capacity(b)

\* ChannelBuffer::position
Position(b) == b.pos

\* samples of src that ChannelBuffer::fill_from_slice consumes
FillCount(b, src) == Min(Len(src), Capacity(b) - b.pos)

\* ChannelBuffer::fill_from_slice: the leading samples of src that fit are
\* demultiplexed into the per-channel regions
FillFromSlice(b, src) ==
    LET n == FillCount(b, src)
    IN  [b EXCEPT
           !.pos = b.pos + n,
           !.ch = [c \in 1..b.channels |-> [f \in 1..b.nframes |->
                    LET j == (f - 1) * b.channels + c
                    IN  IF j > b.pos /\ j <= b.pos + n
                        THEN src[j - b.pos] ELSE b.ch[c][f]]]]

\* ChannelBuffer::reset: the storage is kept
Reset(b) == [b EXCEPT !.pos = 0]

\* ChannelBuffer::silence_remainder
SilenceRemainder(b) ==
    [b EXCEPT !.ch = [c \in 1..b.channels |-> [f \in 1..b.nframes |->
                 IF (f - 1) * b.channels + c > b.pos THEN 0 ELSE b.ch[c][f]]]]

\* ChannelBuffer::inner
Inner(b) == b.ch

\* VecExt::fill_from_deinterleaved: the per-channel regions, interleaved
FillFromDeinterleaved(chs, channels, nframes) ==
    [j \in 1..(channels * nframes) |->
        chs[((j - 1) % channels) + 1][((j - 1) \div channels) + 1]]

(* ------------------------- resampler session --------------------------- *)
\* FftFixedInOut::input_frames_next
InputFramesNext(rin, rout) == NFrames

\* a session whose resampler is built with the two rates exchanged
SessionNew_RatesExchanged(id, rin, rout, channels) ==
    [id |-> id, rin |-> rout, rout |-> rin, channels |-> channels,
     steps |-> 0, written |-> 0,
     in_buf |-> ChannelBufferNew(NFrames, channels),
     resampler_buf |-> [n |-> 0,
          ch |-> [c \in 1..channels |-> [f \in 1..NFrames |-> 0]]],
     out_buf |-> EmptyBlock]

\* ResampleDecoderInner as built by initialize_resampler: written 0, an
\* empty out_buf, an allocated resampler_buf no resampler step has written
SessionNew(id, rin, rout, channels) ==
    LET n_frames == InputFramesNext(rin, rout)
    IN  [id |-> id, rin |-> rin, rout |-> rout, channels |-> channels,
         steps |-> 0, written |-> 0,
         in_buf |-> ChannelBufferNew(n_frames, channels),
         resampler_buf |-> [n |-> 0,
              ch |-> [c \in 1..channels |-> [f \in 1..n_frames |-> 0]]],
         out_buf |-> EmptyBlock]

\* resampler.process_into_buffer(in_buf.inner(), &mut resampler_buf, None):
\* one resampler step; its output is identified by the step number
ProcessIntoBuffer(s) ==
    [s EXCEPT !.steps = @ + 1,
              !.resampler_buf = [n |-> s.steps + 1, ch |-> Inner(s.in_buf)]]

\* out_buf.fill_from_deinterleaved(&resampler_buf)
FillOutBuf(s) ==
    [s EXCEPT !.out_buf =
        [k |-> "rs", id |-> s.id, n |-> s.resampler_buf.n,
         data |-> FillFromDeinterleaved(s.resampler_buf.ch, s.channels,
                                        s.in_buf.nframes)]]

\* a fill that counts the whole tail as written
FillFromCurrent_CountsWholeTail(s, d) ==
    LET cur == DecoderCurrent(d).data
        tail == SubSeq(cur, s.written + 1, Len(cur))
    IN  [s EXCEPT !.in_buf = FillFromSlice(@, tail),
                  !.written = @ + Len(tail)]

\* one fill of the while loop: written += in_buf.fill_from_slice(
\* &cur_frame[written..])
FillFromCurrent(s, d) ==
    LET cur == DecoderCurrent(d).data
        tail == SubSeq(cur, s.written + 1, Len(cur))
    IN  [s EXCEPT !.in_buf = FillFromSlice(@, tail),
                  !.written = @ + FillCount(s.in_buf, tail)]

\* the while loop of ResampleDecoderInner::next; res is "full" when the
\* loop is left with a full accumulator, else the outcome that returned
RECURSIVE NextLoop(_, _)
NextLoop(s, d) ==
    IF IsFull(s.in_buf) THEN [s |-> s, d |-> d, res |-> "full"]
    ELSE IF s.written > Len(DecoderCurrent(d).data)
    THEN [s |-> s, d |-> d, res |-> "panic"]
    ELSE The({ IF s1.written = Len(DecoderCurrent(d).data)
               THEN The({ IF r.res = "some"
                          THEN NextLoop([s1 EXCEPT !.written = 0], r.d)
                          ELSE [s |-> s1, d |-> r.d, res |-> r.res]
                          : r \in {DecoderNext(d)} })
               ELSE NextLoop(s1, d)
               : s1 \in {FillFromCurrent(s, d)} })

\* a tail that keeps the accumulator's position
ProcessFull_NoReset(s) == FillOutBuf(ProcessIntoBuffer(s))

\* the tail of ResampleDecoderInner::next: one resampler step, the
\* accumulator reset, out_buf refilled
ProcessFull(s) ==
    FillOutBuf([ProcessIntoBuffer(s) EXCEPT !.in_buf = Reset(@)])

\* ResampleDecoderInner::next
InnerNext(s, d) ==
    The({ IF l.res = "full"
          THEN The({ [s |-> s2, d |-> l.d, res |-> "some", blk |-> s2.out_buf]
                     : s2 \in {ProcessFull(l.s)} })
          ELSE [s |-> l.s, d |-> l.d, res |-> l.res, blk |-> EmptyBlock]
          : l \in {NextLoop(s, d)} })

\* ResampleDecoderInner::current
InnerCurrent(s) == s.out_buf

\* ResampleDecoderInner::flush
InnerFlush(s) ==
    IF Position(s.in_buf) > 0
    THEN The({ [s |-> s2, blk |-> s2.out_buf]
               : s2 \in {[ProcessIntoBuffer(
                            [s EXCEPT !.in_buf = SilenceRemainder(@)])
                          EXCEPT !.in_buf = Reset(@)]} })
    ELSE [s |-> s, blk |-> EmptyBlock]

(* ----------------------------- converter ------------------------------- *)
NoSession == [id |-> 0]

\* ResampledDecoder::new
New(out_sample_rate, channels) ==
    [mode |-> "NotResampled", inner |-> NoSession,
     in_sample_rate |-> out_sample_rate,
     out_sample_rate |-> out_sample_rate, channels |-> channels]

\* ResampledDecoder::decode_next_frame
DecodeNextFrame(c, d) ==
    IF c.mode = "Resampled"
    THEN The({ [conv |-> [c EXCEPT !.inner = r.s], d |-> r.d,
                res |-> r.res, blk |-> r.blk]
               : r \in {InnerNext(c.inner, d)} })
    ELSE The({ [conv |-> c, d |-> r.d, res |-> r.res,
                blk |-> IF r.res = "some" THEN DecoderCurrent(r.d)
                        ELSE EmptyBlock]
               : r \in {DecoderNext(d)} })

\* ResampledDecoder::current
Current(c, d) ==
    IF c.mode = "Resampled" THEN InnerCurrent(c.inner) ELSE DecoderCurrent(d)

\* ResampledDecoder::flush
Flush(c) ==
    IF c.mode = "Resampled"
    THEN The({ [conv |-> [c EXCEPT !.inner = r.s], blk |-> r.blk]
               : r \in {InnerFlush(c.inner)} })
    ELSE [conv |-> c, blk |-> EmptyBlock]

\* ResampledDecoder::initialize_resampler: a new session replaces the
\* state, then decode_next_frame(decoder).unwrap() primes it; res is
\* "panic" when the unwrap meets an Err
InitializeResampler(c, d, id) ==
    The({ [conv |-> r.conv, d |-> r.d, built |-> 1,
           res |-> IF r.res \in {"some", "none"} THEN "ok" ELSE "panic"]
          : r \in {DecodeNextFrame(
                     [c EXCEPT !.mode = "Resampled",
                               !.inner = SessionNew(id, c.in_sample_rate,
                                           c.out_sample_rate, c.channels)],
                     d)} })

\* a reuse that keeps the read offset of the previous decoder's chunk
ReuseSession_KeepsWritten(inner) == inner

\* a reuse that also empties the accumulator
ReuseSession_ResetsAccumulator(inner) ==
    [inner EXCEPT !.written = 0, !.in_buf = Reset(@)]

\* the Resampled arm of initialize that keeps the session
ReuseSession(inner) == [inner EXCEPT !.written = 0]

\* ResampledDecoder::initialize
Initialize(c, d, id) ==
    The({ IF c1.mode = "NotResampled" THEN InitializeResampler(c1, d, id)
          ELSE IF c1.in_sample_rate # c1.out_sample_rate
                  /\ c1.in_sample_rate = c.in_sample_rate
          THEN [conv |-> [c1 EXCEPT !.inner = ReuseSession(@)], d |-> d,
                built |-> 0, res |-> "ok"]
          ELSE IF c1.in_sample_rate = c1.out_sample_rate
          THEN [conv |-> [c1 EXCEPT !.mode = "NotResampled",
                                    !.inner = NoSession],
                d |-> d, built |-> 0, res |-> "ok"]
          ELSE InitializeResampler(c1, d, id)
          : c1 \in {[c EXCEPT !.in_sample_rate = DecoderSampleRate(d)]} })

(* ------------------------------- sink ---------------------------------- *)
\* OutputBuilder::new_output: a stream that is not started
NewOutput == [started |-> FALSE, space |-> SinkCap, log |-> <<>>]

\* AudioOutput::buffer_space_available
BufferSpaceAvailable(o) == o.space

\* AudioOutput::write, called with a block that fits the free space
Write(o, blk, from) ==
    [o EXCEPT !.space = @ - Len(blk.data),
              !.log = Append(@, [via |-> "write", from |-> from,
                                 blk |-> blk])]

\* AudioOutput::write_blocking: returns once the block is accepted
WriteBlocking(o, blk, from) ==
    [o EXCEPT !.log = Append(@, [via |-> "write_blocking", from |-> from,
                                 blk |-> blk])]

\* AudioOutput::start
Start(o) == [o EXCEPT !.started = TRUE]

\* the decoder has raised its fault
Raised(d) == d.kind \in FaultKinds /\ d.fuse = 0

(* --------------------------- orchestrator ------------------------------ *)
NoDecoder == DecoderNew(0, 0, [rate |-> 0, shape |-> <<>>], 0, 0, "none")

NoReturn == [res |-> "init", blk |-> EmptyBlock]

\* queue.rs 16-30: the default output configuration, the converter built
\* for it, and the queue of sources
Init ==
    /\ queue \in Queues
    /\ qi = 1
    /\ initialized = FALSE
    /\ dec = NoDecoder
    /\ \E r \in Rates, ch \in 1..MaxChannels : conv = New(r, ch)
    /\ sink = NewOutput
    /\ pc = "open"
    /\ result = "running"
    /\ faults = 0
    /\ opened = 0
    /\ built = 0
    /\ flushes = 0
    /\ ret = NoReturn

\* a boundary that compares the new rate with the sink's rate
NeedsFlush_AgainstOutRate(d, c) == DecoderSampleRate(d) # c.out_sample_rate

\* queue.rs 76: the boundary flushes when the new source's rate is not the
\* converter's last input rate
NeedsFlush(d, c) == DecoderSampleRate(d) # c.in_sample_rate

\* a loop that also advances on ResetRequired
GoNext_OnResetToo(res) == res \in {"none", "reset"}

\* queue.rs 84-98: the queue advances on Ok(None) only
GoNext(res) == res = "none"

\* a loop that retries on every decode error
SteadyOutcome_RetriesEveryError(res, q) ==
    IF res = "none" THEN [pc |-> "open", qi |-> q + 1, result |-> "running"]
    ELSE IF res = "some"
    THEN [pc |-> "steady", qi |-> q, result |-> "running"]
    ELSE IF res \in {"reset", "other"}
    THEN [pc |-> "open", qi |-> q, result |-> "running"]
    ELSE [pc |-> "done", qi |-> q, result |-> "panic"]

\* queue.rs 84-98: what the steady-state loop does with the result of
\* decode_next_frame: advance, loop, reopen the same entry, or return Err
SteadyOutcome(res, q) ==
    IF GoNext(res) THEN [pc |-> "open", qi |-> q + 1, result |-> "running"]
    ELSE IF res = "some"
    THEN [pc |-> "steady", qi |-> q, result |-> "running"]
    ELSE IF res = "reset"
    THEN [pc |-> "open", qi |-> q, result |-> "running"]
    ELSE IF res = "other"
    THEN [pc |-> "done", qi |-> q, result |-> "err"]
    ELSE [pc |-> "done", qi |-> q, result |-> "panic"]

\* a branch that takes the first-source path for every source
AfterOpen_AlwaysFirst(init) == "first"

\* queue.rs 47, 75: the first-source path is taken once
AfterOpen(init) == IF init THEN "boundary" ELSE "first"

\* a loop that advances before it writes
LoopBlock_AfterDecode(c, d, r) == Current(r.conv, r.d)

\* queue.rs 70-71, 83-84: the block one turn of a loop writes is the
\* converter's current block before decode_next_frame is called
LoopBlock(c, d, r) == Current(c, d)

\* queue.rs 33-45: the queue entry is opened and a decoder built for it.
\* The decode faults the source will raise are fixed here.
Open ==
    /\ pc = "open"
    /\ qi <= Len(queue)
    /\ \E fuse \in 0..MaxFuse, kind \in FaultKinds \cup {"none"} :
         /\ \/ fuse = 0 /\ kind = "none" /\ faults' = faults
            \/ /\ fuse > 0 /\ kind \in FaultKinds
               /\ faults < MaxFaults /\ faults' = faults + 1
         /\ dec' = DecoderNew(opened + 1, qi, queue[qi], conv.channels,
                              fuse, kind)
    /\ opened' = opened + 1
    /\ pc' = AfterOpen(initialized)
    /\ UNCHANGED <<queue, qi, initialized, conv, sink, result, built,
                   flushes, ret>>

\* queue.rs 47-66: the sink is opened for the closest configuration, the
\* converter is rebuilt for it and initialized with the first decoder
First ==
    /\ pc = "first"
    /\ initialized' = TRUE
    /\ sink' = NewOutput
    /\ \E out \in Rates :
         \E r \in {Initialize(New(out, conv.channels), dec, built + 1)} :
             /\ conv' = r.conv
             /\ dec' = r.d
             /\ built' = built + r.built
             /\ IF r.res = "panic"
                THEN pc' = "done" /\ result' = "panic"
                ELSE pc' = "prefill" /\ result' = result
    /\ UNCHANGED <<queue, qi, faults, opened, flushes, ret>>

\* queue.rs 69-72: one turn of the prefill loop
Prefill ==
    /\ pc = "prefill"
    /\ Len(Current(conv, dec).data) <= BufferSpaceAvailable(sink)
    /\ Len(sink.log) < MaxSink
    /\ \E r \in {DecodeNextFrame(conv, dec)} :
           /\ sink' = Write(sink, LoopBlock(conv, dec, r), "current")
           /\ conv' = r.conv
           /\ dec' = r.d
           /\ ret' = [res |-> r.res, blk |-> r.blk]
           /\ IF r.res \in {"reset", "other"}
              THEN pc' = "done" /\ result' = "err"
              ELSE IF r.res = "panic"
              THEN pc' = "done" /\ result' = "panic"
              ELSE pc' = pc /\ result' = result
    /\ UNCHANGED <<queue, qi, initialized, faults, opened, built, flushes>>

\* queue.rs 69, 74: the prefill loop ends and the stream is started
StartOutput ==
    /\ pc = "prefill"
    /\ Len(Current(conv, dec).data) > BufferSpaceAvailable(sink)
    /\ sink' = Start(sink)
    /\ pc' = "steady"
    /\ UNCHANGED <<queue, qi, initialized, dec, conv, result, faults,
                   opened, built, flushes, ret>>

\* queue.rs 76-78: flush the converter into the sink
BoundaryFlush ==
    /\ pc = "boundary"
    /\ NeedsFlush(dec, conv)
    /\ \E r \in {Flush(conv)} :
           /\ conv' = r.conv
           /\ sink' = WriteBlocking(sink, r.blk, "flush")
    /\ flushes' = flushes + 1
    /\ pc' = "init"
    /\ UNCHANGED <<queue, qi, initialized, dec, result, faults, opened,
                   built, ret>>

\* queue.rs 76: the rates agree, nothing is flushed
BoundarySkip ==
    /\ pc = "boundary"
    /\ ~NeedsFlush(dec, conv)
    /\ pc' = "init"
    /\ UNCHANGED <<queue, qi, initialized, dec, conv, sink, result, faults,
                   opened, built, flushes, ret>>

\* queue.rs 79: the converter is initialized for the new decoder
Reinitialize ==
    /\ pc = "init"
    /\ \E r \in {Initialize(conv, dec, built + 1)} :
           /\ conv' = r.conv
           /\ dec' = r.d
           /\ built' = built + r.built
           /\ IF r.res = "panic"
              THEN pc' = "done" /\ result' = "panic"
              ELSE pc' = "steady" /\ result' = result
    /\ UNCHANGED <<queue, qi, initialized, sink, faults, opened, flushes,
                   ret>>

\* queue.rs 82-99: one turn of the steady-state loop
Steady ==
    /\ pc = "steady"
    /\ \E r \in {DecodeNextFrame(conv, dec)} :
           /\ sink' = WriteBlocking(sink, LoopBlock(conv, dec, r), "current")
           /\ conv' = r.conv
           /\ dec' = r.d
           /\ ret' = [res |-> r.res, blk |-> r.blk]
           /\ \E o \in {SteadyOutcome(r.res, qi)} :
                  pc' = o.pc /\ qi' = o.qi /\ result' = o.result
    /\ UNCHANGED <<queue, initialized, faults, opened, built, flushes>>

\* queue.rs 31, 101: the queue is exhausted and main returns Ok(())
Finish ==
    /\ pc = "open"
    /\ qi > Len(queue)
    /\ pc' = "done"
    /\ result' = "ok"
    /\ UNCHANGED <<queue, qi, initialized, dec, conv, sink, faults, opened,
                   built, flushes, ret>>

Next ==
    \/ Open
    \/ First
    \/ Prefill
    \/ StartOutput
    \/ BoundaryFlush
    \/ BoundarySkip
    \/ Reinitialize
    \/ Steady
    \/ Finish

Spec == Init /\ [][Next]_vars

TypeOK ==
    /\ pc \in {"open", "first", "prefill", "boundary", "init", "steady",
               "done"}
    /\ result \in {"running", "ok", "err", "panic"}
    /\ conv.mode \in {"NotResampled", "Resampled"}
    /\ qi \in 1..(Len(queue) + 1)

(* ------------------------------ claims --------------------------------- *)
\* the program has not aborted in a panic
Alive == result # "panic"

Last(s) == s[Len(s)]

\* C1: once the converter is constructed, and after every initialize, it is
\* in Bypass (NotResampled) exactly when the rate reported at the most
\* recent initialize (in_sample_rate) equals out_sample_rate.
C1_BypassIffRatesEqual ==
    Alive => (conv.mode = "NotResampled"
                <=> conv.in_sample_rate = conv.out_sample_rate)

\* every queued source reports the sink's rate
AllAtSinkRate ==
    \A i \in DOMAIN queue : queue[i].rate = conv.out_sample_rate

\* C2: when every queued source reports the sink's rate, no resampler
\* session is ever constructed and the blocks decode_next_frame and current
\* hand out are the decode source's own.
C2_PassthroughBuildsNoSession ==
    (initialized /\ Alive /\ AllAtSinkRate) =>
        /\ built = 0
        /\ conv.mode = "NotResampled"
        /\ Current(conv, dec) = DecoderCurrent(dec)
        /\ (ret.res = "some" => ret.blk = DecoderCurrent(dec))

\* C3: flush() on an Active session with position 0 returns an empty block
\* and changes nothing; with position > 0 it returns a non-empty block that
\* is the output of the resampler step run in that flush call, and leaves
\* position 0.  In Bypass it returns an empty block and changes nothing.
C3_FlushReturnsItsOwnOutput ==
    [][(pc = "boundary" /\ flushes' = flushes + 1) =>
         LET blk == Last(sink'.log).blk
         IN  IF conv.mode = "Resampled" /\ Position(conv.inner.in_buf) > 0
             THEN /\ blk.data # <<>>
                  /\ blk.k = "rs"
                  /\ blk.id = conv.inner.id
                  /\ blk.n = conv.inner.steps + 1
                  /\ conv'.inner.steps = conv.inner.steps + 1
                  /\ Position(conv'.inner.in_buf) = 0
             ELSE blk = EmptyBlock /\ conv' = conv]_vars

\* C4: at a boundary where the new source's rate differs from the
\* converter's in_sample_rate the orchestrator calls flush() once and
\* blocking-writes its result to the sink before initialize; when the rates
\* are equal nothing is flushed or written; flush() is called nowhere else
\* and initialize itself neither flushes nor writes.
C4_FlushOnceBeforeInitialize ==
    [][/\ pc = "boundary" =>
            /\ pc' = "init"
            /\ dec' = dec
            /\ built' = built
            /\ IF DecoderSampleRate(dec) # conv.in_sample_rate
               THEN /\ flushes' = flushes + 1
                    /\ conv' = Flush(conv).conv
                    /\ sink'.log = Append(sink.log,
                          [via |-> "write_blocking", from |-> "flush",
                           blk |-> Flush(conv).blk])
               ELSE flushes' = flushes /\ sink' = sink /\ conv' = conv
       /\ flushes' # flushes => pc = "boundary"
       /\ pc = "init" => sink' = sink /\ flushes' = flushes
       /\ (pc' = "steady" /\ pc \notin {"steady", "prefill"}) => pc = "init"
      ]_vars

\* C4 instance: 44100 Hz then 48000 Hz into a 48000 Hz sink; one flush was
\* written and track 2 plays in Bypass
C4_Witness ==
    /\ Len(queue) = 2
    /\ queue[1].rate = 44100 /\ queue[2].rate = 48000
    /\ conv.out_sample_rate = 48000
    /\ pc = "steady" /\ qi = 2
    /\ flushes = 1
    /\ \E i \in DOMAIN sink.log : sink.log[i].from = "flush"
    /\ conv.mode = "NotResampled"

\* C5: initialize in Active with a decoder whose rate is the session's
\* input rate and is not out_sample_rate keeps the session: resampler and
\* configuration, accumulator, buffers unchanged, written becomes 0, no
\* session is built and nothing is pulled from the decoder.
C5_ReuseResetsWrittenOnly ==
    [][(/\ pc = "init"
        /\ conv.mode = "Resampled"
        /\ DecoderSampleRate(dec) = conv.inner.rin
        /\ DecoderSampleRate(dec) # conv.out_sample_rate) =>
            /\ conv'.mode = "Resampled"
            /\ conv'.inner = [conv.inner EXCEPT !.written = 0]
            /\ conv'.out_sample_rate = conv.out_sample_rate
            /\ conv'.in_sample_rate = conv.inner.rin
            /\ built' = built
            /\ dec' = dec
            /\ pc' = "steady"]_vars

\* a reused session that still holds accumulated samples plays a second
\* decoder from which nothing was pulled yet
C5_Witness ==
    /\ pc = "steady"
    /\ opened >= 2 /\ dec.inst = opened /\ dec.idx = 1
    /\ built = 1
    /\ conv.mode = "Resampled"
    /\ conv.inner.rin # conv.out_sample_rate
    /\ conv.inner.written = 0
    /\ Position(conv.inner.in_buf) > 0
    /\ conv.inner.steps > 0

\* C6: a single source whose rate differs from the sink's is played by an
\* Active converter, and when the orchestrator has finished the last write
\* to the sink is the one flushed block.
C6_SingleSourceEndsWithFlush ==
    (/\ pc = "done" /\ result = "ok"
     /\ Len(queue) = 1
     /\ queue[1].rate # conv.out_sample_rate) =>
        /\ conv.mode = "Resampled"
        /\ flushes = 1
        /\ sink.log # <<>>
        /\ Last(sink.log).from = "flush"

\* C7: no Active session whose accumulator position is > 0 is replaced (by
\* Bypass or by a new session) while it still holds those samples.
C7_NoPendingSessionDiscarded ==
    [][(/\ conv.mode = "Resampled"
        /\ Alive'
        /\ \/ conv'.mode = "NotResampled"
           \/ conv'.inner.id # conv.inner.id) =>
            Position(conv.inner.in_buf) = 0]_vars

\* C8: ResetRequired in the steady-state loop reopens the same queue entry
\* with a new decode source; the queue position changes only by one, in the
\* steady-state loop, on Ok(None); the source being played is always the
\* one at the queue position.
C8_ResetKeepsQueuePosition ==
    [][/\ qi' # qi => (qi' = qi + 1 /\ pc = "steady" /\ ret'.res = "none")
       /\ (pc = "steady" /\ ret'.res = "none") => (qi' = qi + 1 /\ pc' = "open")
       /\ (pc = "steady" /\ ret'.res = "reset") => (qi' = qi /\ pc' = "open")
       /\ (pc = "open" /\ qi <= Len(queue)) =>
             /\ dec'.inst = opened + 1
             /\ dec'.file = qi
             /\ dec'.idx = 1
       /\ pc' \notin {"open", "done"} => dec'.file = qi'
      ]_vars

\* the first entry is being played again by a second decoder after a
\* ResetRequired in the steady-state loop
C8_Witness ==
    /\ pc = "steady"
    /\ ret.res = "reset"
    /\ qi = 1 /\ dec.file = 1 /\ dec.inst = 2
    /\ sink.started

\* C9: a ResetRequired raised by the decode source never ends the playback
\* session as a failure.
C9_ResetNeverFails ==
    (Raised(dec) /\ dec.kind = "reset") => result \notin {"err", "panic"}

\* C10: a decode error raised while the converter pulls from the source
\* reaches the orchestrator as the error value of the call; the converter
\* does not abort on it.
C10_ErrorsReturnedNotAborted ==
    Raised(dec) => (result # "panic" /\ ret.res = dec.kind)

\* C11: whenever initialize builds a new session, the converter's current()
\* is a non-empty block when initialize returns, whatever the decode source.
C11_NewSessionHasCurrentBlock ==
    [][(built' = built + 1 /\ Alive') =>
          /\ conv'.mode = "Resampled"
          /\ Current(conv', dec').data # <<>>]_vars

\* C12: in the steady-state loop a decode error other than ResetRequired
\* ends the orchestrator with a failure at once; once it has ended nothing
\* is written, no source is opened and the queue position stays.
C12_OtherErrorIsFatal ==
    [][/\ (pc = "steady" /\ ret'.res = "other") =>
             /\ pc' = "done" /\ result' = "err"
             /\ qi' = qi /\ opened' = opened
             /\ Len(sink'.log) = Len(sink.log) + 1
       /\ pc' = "open" => ret'.res # "other"
       /\ pc = "done" =>
             (sink' = sink /\ opened' = opened /\ qi' = qi /\ pc' = "done")
      ]_vars

\* the loop returned Err while a queue entry was still waiting
C12_Witness ==
    /\ pc = "done" /\ result = "err"
    /\ ret.res = "other"
    /\ sink.started
    /\ Len(sink.log) >= 2
    /\ Last(sink.log).via = "write_blocking"
    /\ qi < Len(queue)

\* a turn of the prefill or steady-state loop that called the Active
\* session's next()
ActiveNextStep ==
    /\ pc \in {"prefill", "steady"}
    /\ conv.mode = "Resampled"
    /\ Len(sink'.log) = Len(sink.log) + 1

\* the j-th sample of the accumulator, in interleaved order
Accumulated(b, j) == b.ch[((j - 1) % b.channels) + 1][((j - 1) \div b.channels) + 1]

\* C13: Active next() returns Some(block) only with a full accumulator,
\* after exactly one resampler step and with position reset to 0; when it
\* returns None it has run no resampler step, written no silence, and has
\* left the output buffer and the samples accumulated so far in place.
C13_NextSomeOrNone ==
    [][ActiveNextStep =>
         /\ ret'.res = "some" =>
              /\ conv'.inner.steps = conv.inner.steps + 1
              /\ Position(conv'.inner.in_buf) = 0
              /\ ret'.blk = conv'.inner.out_buf
              /\ ret'.blk.n = conv'.inner.steps
              /\ Len(ret'.blk.data) = Capacity(conv.inner.in_buf)
              /\ \A j \in 1..Len(ret'.blk.data) :
                    /\ ret'.blk.data[j] # 0
                    /\ ret'.blk.data[j] = Accumulated(conv'.inner.in_buf, j)
         /\ ret'.res = "none" =>
              /\ conv'.inner.steps = conv.inner.steps
              /\ conv'.inner.out_buf = conv.inner.out_buf
              /\ conv'.inner.resampler_buf = conv.inner.resampler_buf
              /\ Position(conv'.inner.in_buf) >= Position(conv.inner.in_buf)
              /\ \A j \in 1..Capacity(conv.inner.in_buf) :
                    \/ /\ j > Position(conv.inner.in_buf)
                       /\ j <= Position(conv'.inner.in_buf)
                       /\ Accumulated(conv'.inner.in_buf, j) # 0
                    \/ Accumulated(conv'.inner.in_buf, j)
                         = Accumulated(conv.inner.in_buf, j)]_vars

\* next() has returned None after an earlier block, with samples pending
C13_Witness ==
    /\ pc = "steady"
    /\ conv.mode = "Resampled"
    /\ ret.res = "none"
    /\ conv.inner.steps >= 2
    /\ Position(conv.inner.in_buf) > 0
    /\ ~IsFull(conv.inner.in_buf)
    /\ conv.inner.out_buf.data # <<>>

\* the session was built for the decoder now open, so every sample it has
\* taken comes from that decoder's stream
OwnSession ==
    /\ Alive
    /\ pc \in {"prefill", "steady", "open", "done"}
    /\ conv.mode = "Resampled"
    /\ built = opened
    /\ conv.inner.id = built

\* the j-th sample of the stream of the decoder's source
StreamSample(d, j) == d.file * 100 + j

\* samples of the stream that precede the decoder's current chunk
ChunkOffset(d) == SumTo(d.shape, d.idx - 1) * d.channels

\* C14: over the next() calls made on one decode source every sample of
\* its chunk stream enters the accumulator exactly once and in stream
\* order: the blocks processed so far and the accumulator's content are
\* the consecutive samples of the stream up to the read offset.
C14_SamplesFedOnceInOrder ==
    OwnSession =>
        LET s == conv.inner
            cap == Capacity(s.in_buf)
            pos == Position(s.in_buf)
        IN  /\ ChunkOffset(dec) + s.written = s.steps * cap + pos
            /\ \A j \in 1..pos :
                  Accumulated(s.in_buf, j) = StreamSample(dec, s.steps * cap + j)
            /\ s.steps > 0 =>
                  /\ s.out_buf.n = s.steps
                  /\ s.out_buf.data =
                       [j \in 1..cap |->
                          StreamSample(dec, (s.steps - 1) * cap + j)]

\* two blocks were cut from three chunks, none of which ends where a block
\* ends, and a sample is pending
C14_Witness ==
    /\ OwnSession
    /\ dec.shape = <<1, 2, 2>>
    /\ dec.idx = 3
    /\ conv.inner.steps = 2
    /\ Position(conv.inner.in_buf) > 0
    /\ conv.inner.written = Len(DecoderCurrent(dec).data)

\* the block was handed to the sink
WrittenTo(o, blk) == \E i \in DOMAIN o.log : o.log[i].blk = blk

\* C15: a block that is the converter's current block in the prefill or
\* steady-state loop has been written to the sink by the time a call
\* replaces it or the loop is left: no current block is overwritten or
\* dropped unwritten.
C15_CurrentWrittenBeforeOverwrite ==
    [][(/\ pc \in {"prefill", "steady"}
        /\ Alive'
        /\ Current(conv, dec).data # <<>>
        /\ \/ pc' \notin {"prefill", "steady"}
           \/ Current(conv', dec') # Current(conv, dec)) =>
            WrittenTo(sink', Current(conv, dec))]_vars

\* the second block of a session is current and the first one, which it
\* replaced, is in the sink
C15_Witness ==
    /\ pc = "steady"
    /\ conv.mode = "Resampled"
    /\ conv.inner.out_buf.n = 2
    /\ \E i \in DOMAIN sink.log :
          /\ sink.log[i].blk.k = "rs"
          /\ sink.log[i].blk.id = conv.inner.id
          /\ sink.log[i].blk.n = 1
    /\ ~WrittenTo(sink, conv.inner.out_buf)

\* C16: over a whole run no output block is written to the sink more than
\* once: the non-empty blocks of the sink's writes are pairwise distinct.
C16_NoBlockWrittenTwice ==
    \A i, j \in DOMAIN sink.log :
        (i < j /\ sink.log[i].blk.data # <<>>) =>
            sink.log[i].blk # sink.log[j].blk

\* C17: the prefill loop terminates for every first source and every
\* finite sink buffer.  The loop is deterministic in the converter, the
\* decoder and the sink's free space, so it terminates only if no turn
\* comes back to the loop head with all three unchanged.
C17_PrefillTurnMakesProgress ==
    [][(/\ pc = "prefill" /\ pc' = "prefill"
        /\ Len(sink'.log) > Len(sink.log)) =>
            <<conv', dec', BufferSpaceAvailable(sink')>>
                # <<conv, dec, BufferSpaceAvailable(sink)>>]_vars

\* C18: the sink is opened, prefilled and started once: start() follows
\* the prefill writes and precedes every blocking write, and the
\* first-source path (open the sink, prefill, start) is not taken again
\* for a later source or after a ResetRequired recovery; a run that ends
\* with Ok(()) has started the sink.
C18_PrefillAndStartOnce ==
    [][/\ sink.started =>
             /\ sink'.started
             /\ pc' \notin {"first", "prefill"}
       /\ initialized => (initialized' /\ pc' # "first")
       /\ pc = "first" => (~sink.started /\ sink.log = <<>> /\ opened = 1)
       /\ (sink'.started /\ ~sink.started) =>
             (pc = "prefill" /\ pc' = "steady" /\ sink'.log = sink.log)
       /\ Len(sink'.log) > Len(sink.log) =>
             Last(sink'.log).via =
                 IF sink.started THEN "write_blocking" ELSE "write"
       /\ (pc' = "done" /\ result' = "ok") => sink'.started
      ]_vars

\* the second queue entry is played by the third decoder, after a
\* ResetRequired recovery, on the sink that was prefilled and started for
\* the first source
C18_Witness ==
    /\ pc = "steady" /\ qi = 2 /\ opened = 3
    /\ sink.started
    /\ \E i \in DOMAIN sink.log : sink.log[i].via = "write"
    /\ Last(sink.log).via = "write_blocking"
    /\ faults = 1

\* C19: whenever the converter is Active its session's resampler is
\* configured for (in_sample_rate, out_sample_rate); hence initialize in
\* Active with a rate that is neither the session's input rate nor
\* out_sample_rate replaces the session by a new one, built for the new
\* rate and primed by one call of next().
C19_SessionConfiguredForRates ==
    [][/\ (Alive' /\ conv'.mode = "Resampled") =>
             /\ conv'.inner.rin = conv'.in_sample_rate
             /\ conv'.inner.rout = conv'.out_sample_rate
       /\ (/\ pc = "init" /\ Alive'
           /\ conv.mode = "Resampled"
           /\ DecoderSampleRate(dec) # conv.inner.rin
           /\ DecoderSampleRate(dec) # conv.out_sample_rate) =>
             /\ built' = built + 1
             /\ conv'.mode = "Resampled"
             /\ conv'.inner.id = built + 1
             /\ conv'.inner.id # conv.inner.id
             /\ conv'.inner.rin = DecoderSampleRate(dec)
             /\ conv'.inner.rout = conv.out_sample_rate
             /\ conv'.inner.steps <= 1
             /\ conv'.inner.steps = 1 <=> conv'.inner.out_buf.data # <<>>
             /\ conv'.inner =
                  InnerNext(SessionNew(built + 1, DecoderSampleRate(dec),
                               conv.out_sample_rate, conv.channels), dec).s
      ]_vars

\* a second session, built for a second source whose rate is neither the
\* first source's nor the sink's, has produced its first block
C19_Witness ==
    /\ pc = "steady" /\ qi = 2
    /\ conv.mode = "Resampled"
    /\ built = 2 /\ conv.inner.id = 2
    /\ queue[1].rate # conv.out_sample_rate
    /\ queue[2].rate \notin {queue[1].rate, conv.out_sample_rate}
    /\ conv.inner.rin = queue[2].rate
    /\ conv.inner.steps = 1
    /\ flushes = 1

\* C20: whenever the Active next() can be called (the loops, and the
\* session as initialize leaves it), written does not exceed the length of
\* the decoder's current chunk, so the slice cur_frame[written..] is in
\* range and next() does not panic on it.
C20_WrittenWithinChunk ==
    (/\ Alive
     /\ pc \in {"prefill", "steady"}
     /\ conv.mode = "Resampled") =>
        /\ conv.inner.written <= Len(DecoderCurrent(dec).data)
        /\ DecodeNextFrame(conv, dec).res # "panic"

\* next() is about to be called again after it returned None in prefill,
\* with written at the end of the last chunk
C20_Witness ==
    /\ pc = "prefill"
    /\ conv.mode = "Resampled"
    /\ ret.res = "none"
    /\ Len(sink.log) >= 2
    /\ conv.inner.written = Len(DecoderCurrent(dec).data)
    /\ Current(conv, dec).data # <<>>
    /\ Len(Current(conv, dec).data) <= BufferSpaceAvailable(sink)

\* a reused session is about to read the first chunk of a new decoder
\* that is shorter than the chunk the previous decoder ended on
C20_ReuseWitness ==
    /\ pc = "steady"
    /\ conv.mode = "Resampled"
    /\ built = 1 /\ opened = 2 /\ qi = 2
    /\ dec.idx = 1
    /\ conv.inner.written = 0
    /\ Len(DecoderCurrent(dec).data) < Last(queue[1].shape) * conv.channels

====
